---- MODULE Spec2Model ----
(***************************************************************************)
(* Model of the workflow execution engine (src/core/FlowRunner.ts) of the  *)
(* node editor, together with the node base class whose run method the     *)
(* engine invokes (BaseNode.run).                                          *)
(*                                                                         *)
(* One FlowRunner instance is modelled.  Its callers may call run() and    *)
(* stop() at any point where JavaScript can interleave them: between the   *)
(* awaits of an in-flight run().  Code between two awaits is one action.   *)
(***************************************************************************)
EXTENDS Integers, Sequences, FiniteSets, TLC

\* ------------------------------------------------------------------ bounds
MaxNodes == 3          \* nodes in the editor
MaxConns == 2          \* connections in the editor
MaxRuns  == 2          \* run() calls made on the engine
MaxStops == 1          \* stop() calls made while the running flag is set
MaxStopConns == 1      \* connections of the acyclic graphs on which stop() is exercised
MaxRemovals == 1       \* nodes removed from the editor

NodeIds == 1..MaxNodes
RunIds  == 1..MaxRuns

\* ------------------------------------------------------------ graph model
\* JavaScript undefined, for values read from outputs and inputs
Undef == 0

\* Port names.  "exec" ports carry control flow, "out"/"in" carry data.
Ports == {"exec", "out", "in"}

\* (sourceOutput, targetInput) pairs the editor lets through: exec to exec
\* and data to data.
PortPairs == {<<"exec", "exec">>, <<"out", "in">>}

\* A connection of the editor; source and target differ.
Connection ==
  { [source |-> s, sourceOutput |-> p[1], target |-> t, targetInput |-> p[2]] :
      s \in NodeIds, t \in NodeIds, p \in PortPairs } \
  { c \in [source : NodeIds, sourceOutput : Ports, target : NodeIds, targetInput : Ports] :
      c.source = c.target }

\* The connection lists the model starts from: up to MaxConns distinct
\* connections, in creation order.
ConnLists ==
  UNION { { q \in [1..k -> Connection] : \A i, j \in 1..k : i # j => q[i] # q[j] } :
          k \in 0..MaxConns }

\* Kinds of node object the engine can meet: a plain object with its own run
\* method, an object derived from BaseNode, an object with no run method.
Kinds == {"raw", "base", "norun"}

\* The node populations the model starts from: all plain, all derived from
\* BaseNode, or plain with one node that has no run method.
KindProfiles ==
  { [n \in NodeIds |-> "raw"], [n \in NodeIds |-> "base"] } \cup
  { [n \in NodeIds |-> IF n = m THEN "norun" ELSE "raw"] : m \in NodeIds }

\* What the node's own work does when it is invoked.
WorkOutcomes == {"ok", "reject", "throw"}

\* What the work of a node of kind k can do.  BaseNode.run is async and awaits
\* executeNode inside its try block, so a throw of executeNode and a rejection
\* are the same event there.
WorkOf(k) == IF k = "base" THEN {"ok", "reject"} ELSE WorkOutcomes

\* The only error message a failing node gives.
ErrMsg == "network error"

\* The named outputs a node produces when its work succeeds.
NodeOutput(n) ==
  [p \in Ports |-> IF p = "out" THEN 10 + n ELSE IF p = "exec" THEN 20 + n ELSE Undef]

NoOutput == [p \in Ports |-> Undef]

\* ------------------------------------------------------------ result shapes
\* NodeExecutionResult as stored in the state map; set = FALSE is undefined.
NoResult == [set |-> FALSE, success |-> FALSE, output |-> NoOutput, error |-> ""]

\* NodeExecutionState; status "absent" is a key missing from the map.
AbsentState ==
  [status |-> "absent", hasStart |-> FALSE, hasEnd |-> FALSE,
   result |-> NoResult, error |-> ""]

PendingState == [AbsentState EXCEPT !.status = "pending"]

\* ------------------------------------------------------------ sequences
Range(q) == { q[i] : i \in 1..Len(q) }

\* index of x in q, 0 when absent
Pos(q, x) == IF x \in Range(q) THEN CHOOSE i \in 1..Len(q) : q[i] = x ELSE 0

\* ------------------------------------------------------------ scheduler
\* sources of the connections into nodeId, in connection-list order
Dependencies(cs, nodeId) ==
  LET sel == SelectSeq(cs, LAMBDA c : c.target = nodeId)
  IN  [i \in 1..Len(sel) |-> sel[i].source]

RECURSIVE visit(_, _, _)
RECURSIVE visitEach(_, _, _, _)

\* the traversal state: the two marker sets, the order built so far, and
\* whether 'Cycle detected in the graph' has been thrown
NewTraversal == [visited |-> {}, temp |-> {}, order |-> <<>>, thrown |-> FALSE]

\* the for-of loop over the dependencies; a throw leaves the loop
visitEach(cs, deps, i, st) ==
  IF st.thrown \/ i > Len(deps) THEN st
  ELSE visitEach(cs, deps, i + 1, visit(cs, deps[i], st))

\* a visit that takes a node on the current path for a finished one
visitNoCycleCheck(cs, nodeId, st) ==
  IF nodeId \in st.temp \/ nodeId \in st.visited THEN st
  ELSE LET st1 == [st EXCEPT !.temp = @ \cup {nodeId}]
           st2 == visitEach(cs, Dependencies(cs, nodeId), 1, st1)
       IN  IF st2.thrown THEN st2
           ELSE [st2 EXCEPT !.temp = @ \ {nodeId},
                            !.visited = @ \cup {nodeId},
                            !.order = Append(@, nodeId)]

visit(cs, nodeId, st) ==
  IF nodeId \in st.temp THEN [st EXCEPT !.thrown = TRUE]
  ELSE IF nodeId \in st.visited THEN st
  ELSE LET st1 == [st EXCEPT !.temp = @ \cup {nodeId}]
           st2 == visitEach(cs, Dependencies(cs, nodeId), 1, st1)
       IN  IF st2.thrown THEN st2
           ELSE [st2 EXCEPT !.temp = @ \ {nodeId},
                            !.visited = @ \cup {nodeId},
                            !.order = Append(@, nodeId)]

RECURSIVE visitNodes(_, _, _, _)
\* a loop that starts a visit only at nodes that have a connection
visitNodesConnected(ns, cs, i, st) ==
  IF st.thrown \/ i > Len(ns) THEN st
  ELSE visitNodes(ns, cs, i + 1,
                  IF \/ ns[i] \in st.visited
                     \/ \A k \in 1..Len(cs) : cs[k].source # ns[i] /\ cs[k].target # ns[i]
                  THEN st ELSE visit(cs, ns[i], st))

\* the for-of loop over editor.getNodes()
visitNodes(ns, cs, i, st) ==
  IF st.thrown \/ i > Len(ns) THEN st
  ELSE visitNodes(ns, cs, i + 1,
                  IF ns[i] \in st.visited THEN st ELSE visit(cs, ns[i], st))

\* an order that lists every node before its dependencies
calculateExecutionOrderReversed(ns, cs) ==
  LET st == visitNodes(ns, cs, 1, NewTraversal)
  IN  [st EXCEPT !.order = [i \in 1..Len(@) |-> @[Len(@) + 1 - i]]]

\* the traversal state after calculateExecutionOrder: order is the returned
\* list, thrown tells that the call threw instead of returning
calculateExecutionOrder(ns, cs) == visitNodes(ns, cs, 1, NewTraversal)

\* ------------------------------------------------------ graph vocabulary
\* (independent of the traversal above; used to state the properties)
Edge(cs, a, b) == \E i \in 1..Len(cs) : cs[i].source = a /\ cs[i].target = b

RECURSIVE ReachWithin(_, _, _)
\* nodes reachable from the set S along at least one and at most k edges
ReachWithin(cs, S, k) ==
  IF k = 0 THEN {}
  ELSE LET step == { b \in NodeIds : \E a \in S : Edge(cs, a, b) }
       IN  step \cup ReachWithin(cs, step, k - 1)

HasCycle(cs) == \E n \in NodeIds : n \in ReachWithin(cs, {n}, MaxNodes)

\* ------------------------------------------------------------ engine state
VARIABLES
  nodes,            \* editor.getNodes(): node ids in insertion order
  conns,            \* editor.getConnections(): connections in creation order
  kind,             \* what kind of object each node is
  isRunning,        \* FlowRunner.isRunning
  executionStates,  \* FlowRunner.executionStates
  executionOrder,   \* FlowRunner.executionOrder
  nextRun,          \* id the next run() call gets
  stops,            \* stop() calls made so far while the flag was set
  pc,               \* where each run() call stands
  ord,              \* the array each run() call's for-of loop iterates
  idx,              \* position of each run() call in that array
  inputs,           \* inputs resolved for the node a run() call is about to invoke
  pend,             \* what the in-flight node of a run() call will do when it settles
  given,            \* per run() call and node: what the node's work did when invoked
  calls,            \* per node: invocations of its run method since the last reset
  log,              \* per run() call: the onNodeStateChange calls it made
  completed,        \* per run() call: its onExecutionComplete calls
  runResult,        \* per run() call: how the returned promise settled
  cycleReported,    \* per run() call: it logged the cycle error
  overlapped        \* per run() call: another accepted call was in flight with it

\* ------------------------------------------------------------ editor state
VARIABLES
  validated,        \* the editor was set up with the validating connectioncreate pipe
  lastConn          \* the last editor.addConnection call and what became of it

connectVars == <<validated, lastConn>>

\* ------------------------------------------------------------ storage state
VARIABLES
  localStorage,     \* window.localStorage: the items it holds, by key
  instances,        \* the NodeMemory instances constructed, by node id: what owns each
  expect,           \* per instance and key: what its own calls last did to the key
  memLast           \* the last memory call or memory node execution and its result

memVars == <<localStorage, instances, expect, memLast>>

\* ------------------------------------------------------------ history state
VARIABLES
  history,               \* HistoryManager.history
  redoStack,             \* HistoryManager.redoStack
  isUndoRedoInProgress,  \* HistoryManager.isUndoRedoInProgress
  events,                \* editor events emitted and not yet delivered to the pipes
  edNodes,               \* ids of the nodes in the editor the history manager watches
  edConns,               \* ids of the connections in that editor
  histPc,                \* where the undo() or redo() call in progress stands
  userOps,               \* editor operations the user has made
  undone                 \* the last undo() that completed, and what it left

histVars == <<history, redoStack, isUndoRedoInProgress, events, edNodes, edConns,
              histPc, userOps, undone>>

\* ------------------------------------------------------------ WebSocket node state
VARIABLES
  demo,               \* the node runs in demo mode (development build or localhost)
  autoReconnect,      \* WebSocketNode.data.autoReconnect
  webSocket,          \* WebSocketNode.webSocket: 0 for null, else the socket it refers to
  sockets,            \* the WebSocket objects created so far: the state of each
  isConnected,        \* WebSocketNode.isConnected
  reconnectAttempts,  \* WebSocketNode.reconnectAttempts
  reconnectTimer,     \* WebSocketNode.reconnectTimer: null, or a timer armed or fired
  delays,             \* the simulated delays of demo mode that are running
  destroyed,          \* onDestroy has run
  finalOff            \* an explicit disconnect or a destroy was handled, no connect action since

wsVars == <<demo, autoReconnect, webSocket, sockets, isConnected, reconnectAttempts,
            reconnectTimer, delays, destroyed, finalOff>>

\* the state of the components other than the engine
otherVars == <<connectVars, memVars, histVars, wsVars>>

vars == <<nodes, conns, kind, isRunning, executionStates, executionOrder, nextRun,
          stops, pc, ord, idx, inputs, pend, given, calls, log, completed,
          runResult, cycleReported, overlapped, otherVars>>

graphVars == <<nodes, conns, kind>>

\* the engine's own state
runVars == <<isRunning, executionStates, executionOrder, nextRun, stops, pc, ord, idx,
             inputs, pend, given, calls, log, completed, runResult, cycleReported,
             overlapped>>

\* the parts of the program that do not touch the storage
notMemVars == <<graphVars, runVars, connectVars, histVars, wsVars>>

\* the parts of the program the history manager does not touch
notHistVars == <<graphVars, runVars, connectVars, memVars, wsVars>>

\* the parts of the program the WebSocket node does not touch
notWsVars == <<graphVars, runVars, connectVars, memVars, histVars>>

\* the engine right after construction, on a given editor content
Constructed ==
  /\ nodes = [i \in 1..MaxNodes |-> i]
  /\ isRunning = FALSE
  /\ executionStates = [n \in NodeIds |-> AbsentState]
  /\ executionOrder = <<>>
  /\ nextRun = 1
  /\ stops = 0
  /\ pc = [r \in RunIds |-> "idle"]
  /\ ord = [r \in RunIds |-> <<>>]
  /\ idx = [r \in RunIds |-> 0]
  /\ inputs = [r \in RunIds |-> NoOutput]
  /\ pend = [r \in RunIds |-> "none"]
  /\ given = [r \in RunIds |-> [n \in NodeIds |-> "none"]]
  /\ calls = [n \in NodeIds |-> 0]
  /\ log = [r \in RunIds |-> <<>>]
  /\ completed = [r \in RunIds |-> 0]
  /\ runResult = [r \in RunIds |-> "none"]
  /\ cycleReported = [r \in RunIds |-> FALSE]
  /\ overlapped = [r \in RunIds |-> FALSE]

\* no editor.addConnection call has been made
NoCall == [made |-> FALSE]

\* the connection component at rest
ConnectIdle == validated = FALSE /\ lastConn = NoCall

\* no NodeMemory has been constructed and the storage is empty
MemIdle ==
  /\ localStorage = [k \in {} |-> <<>>]
  /\ instances = [k \in {} |-> <<>>]
  /\ expect = [k \in {} |-> <<>>]
  /\ memLast = NoCall

\* a HistoryManager constructed on an editor without nodes
HistIdle ==
  /\ history = <<>>
  /\ redoStack = <<>>
  /\ isUndoRedoInProgress = FALSE
  /\ events = <<>>
  /\ edNodes = {}
  /\ edConns = {}
  /\ histPc = "idle"
  /\ userOps = 0
  /\ undone = NoCall

\* a WebSocket node as constructed, but for the mode and the autoReconnect
\* setting
WsConstructed ==
  /\ webSocket = 0
  /\ sockets = <<>>
  /\ isConnected = FALSE
  /\ reconnectAttempts = 0
  /\ reconnectTimer = "null"
  /\ delays = {}
  /\ destroyed = FALSE
  /\ finalOff = FALSE

\* a WebSocket node as constructed, in production mode
WsIdle == WsConstructed /\ demo = FALSE /\ autoReconnect = TRUE

\* the components other than the engine at rest
OthersIdle == ConnectIdle /\ MemIdle /\ HistIdle /\ WsIdle

\* Editor contents for the engine whose callers use run() and stop(): plain
\* nodes, every graph with a cycle, and the graphs without a cycle that have
\* at most MaxStopConns connections.
Init ==
  /\ Constructed
  /\ OthersIdle
  /\ conns \in { q \in ConnLists : Len(q) <= MaxStopConns \/ HasCycle(q) }
  /\ kind = [n \in NodeIds |-> "raw"]

\* Editor contents for the engine whose callers use run() only: every
\* connection list and every node population.
InitRunOnly ==
  /\ Constructed
  /\ OthersIdle
  /\ conns \in ConnLists
  /\ kind \in KindProfiles

\* Editor contents for the engine whose callers also remove nodes: every
\* connection list, plain nodes or plain nodes with one that has no run method.
InitEdit ==
  /\ Constructed
  /\ OthersIdle
  /\ conns \in ConnLists
  /\ kind \in { k \in KindProfiles : \A n \in NodeIds : k[n] # "base" }

\* An editor with its nodes and no connection yet, set up by initEditor with
\* the validating pipe or without it; the engine has not run.
InitConnect ==
  /\ Constructed
  /\ conns = <<>>
  /\ kind = [n \in NodeIds |-> "raw"]
  /\ validated \in BOOLEAN
  /\ lastConn = NoCall
  /\ MemIdle
  /\ HistIdle
  /\ WsIdle

\* Editor contents for the engine under a fair event loop: as for Init.
InitLive == Init

\* ------------------------------------------------------------ engine helpers
\* a reset that keeps the entries the map already has
resetExecutionStatesNoClear(S, ns) ==
  [n \in NodeIds |-> IF S[n].status # "absent" THEN S[n]
                     ELSE IF n \in Range(ns) THEN PendingState ELSE AbsentState]

\* a reset without the clear(): entries of nodes the editor no longer has stay
resetExecutionStatesNoDelete(S, ns) ==
  [n \in NodeIds |-> IF n \in Range(ns) THEN PendingState ELSE S[n]]

\* the state map after resetExecutionStates: S, the map before, is cleared and
\* every node of the editor gets a pending entry (executionOrder is cleared by
\* the caller of this operator)
resetExecutionStates(S, ns) ==
  [n \in NodeIds |-> IF n \in Range(ns) THEN PendingState ELSE AbsentState]

\* the state map after updateNodeState(nodeId, updates); updates is a record
\* holding some of the fields
updateNodeState(S, nodeId, updates) ==
  IF S[nodeId].status = "absent" THEN S
  ELSE [S EXCEPT ![nodeId] =
          [f \in DOMAIN S[nodeId] |->
              IF f \in DOMAIN updates THEN updates[f] ELSE S[nodeId][f]]]

\* a callback that is handed the state the map held before the update
notifiedStale(S, L, r, nodeId, updates) ==
  IF S[nodeId].status = "absent" THEN L
  ELSE [L EXCEPT ![r] = Append(@, <<nodeId, S[nodeId].status, S[nodeId]>>)]

\* the onNodeStateChange calls of a run, after updateNodeState(nodeId, updates)
\* on map S made one: the callback gets the node id and newState, recorded
\* here as (id, status of newState, newState)
notified(S, L, r, nodeId, updates) ==
  IF S[nodeId].status = "absent" THEN L
  ELSE LET newState == updateNodeState(S, nodeId, updates)[nodeId]
       IN  [L EXCEPT ![r] = Append(@, <<nodeId, newState.status, newState>>)]

RECURSIVE resolveInputs(_, _, _, _, _, _)
\* a loop that sets the input to undefined when the source has no success state
resolveInputsClearing(ns, cs, S, nodeId, i, acc) ==
  IF i > Len(cs) THEN acc
  ELSE LET conn == cs[i]
           sourceState == S[conn.source]
           outputValue == sourceState.result.output[conn.sourceOutput]
       IN  IF conn.target # nodeId THEN resolveInputs(ns, cs, S, nodeId, i + 1, acc)
           ELSE IF \/ conn.source \notin Range(ns)
                   \/ sourceState.status = "absent"
                   \/ sourceState.status # "success"
                THEN resolveInputs(ns, cs, S, nodeId, i + 1,
                                   [acc EXCEPT ![conn.targetInput] = Undef])
           ELSE IF outputValue # Undef
                THEN resolveInputs(ns, cs, S, nodeId, i + 1,
                                   [acc EXCEPT ![conn.targetInput] = outputValue])
           ELSE resolveInputs(ns, cs, S, nodeId, i + 1, acc)

\* a loop in which the first value an input gets is kept
resolveInputsKeeping(ns, cs, S, nodeId, i, acc) ==
  IF i > Len(cs) THEN acc
  ELSE LET conn == cs[i]
           sourceState == S[conn.source]
           outputValue == sourceState.result.output[conn.sourceOutput]
       IN  IF conn.target # nodeId THEN resolveInputs(ns, cs, S, nodeId, i + 1, acc)
           ELSE IF \/ conn.source \notin Range(ns)
                   \/ sourceState.status # "success"
                THEN resolveInputs(ns, cs, S, nodeId, i + 1, acc)
           ELSE IF outputValue # Undef /\ acc[conn.targetInput] = Undef
                THEN resolveInputs(ns, cs, S, nodeId, i + 1,
                                   [acc EXCEPT ![conn.targetInput] = outputValue])
           ELSE resolveInputs(ns, cs, S, nodeId, i + 1, acc)

\* the loop of getNodeInputs over the connections into nodeId
resolveInputs(ns, cs, S, nodeId, i, acc) ==
  IF i > Len(cs) THEN acc
  ELSE LET conn == cs[i]
           sourceState == S[conn.source]
           outputValue == sourceState.result.output[conn.sourceOutput]
       IN  IF conn.target # nodeId THEN resolveInputs(ns, cs, S, nodeId, i + 1, acc)
           ELSE IF \/ conn.source \notin Range(ns)
                   \/ sourceState.status = "absent"
                   \/ sourceState.status # "success"
                THEN resolveInputs(ns, cs, S, nodeId, i + 1, acc)
           ELSE IF outputValue # Undef
                THEN resolveInputs(ns, cs, S, nodeId, i + 1,
                                   [acc EXCEPT ![conn.targetInput] = outputValue])
           ELSE resolveInputs(ns, cs, S, nodeId, i + 1, acc)

getNodeInputs(ns, cs, S, nodeId) == resolveInputs(ns, cs, S, nodeId, 1, NoOutput)

\* how the promise of a plain node's run method settles
RawRun(n, work) ==
  IF work = "ok"
  THEN [how |-> "resolve",
        result |-> [set |-> TRUE, success |-> TRUE, output |-> NodeOutput(n), error |-> ""],
        msg |-> ""]
  ELSE [how |-> "reject", result |-> NoResult, msg |-> ErrMsg]

\* how the promise of BaseNode.run settles, given what executeNode did
BaseNodeRun(n, work) ==
  IF work = "ok"
  THEN [how |-> "resolve",
        result |-> [set |-> TRUE, success |-> TRUE, output |-> NodeOutput(n), error |-> ""],
        msg |-> ""]
  ELSE [how |-> "resolve",
        result |-> [set |-> TRUE, success |-> FALSE, output |-> NoOutput, error |-> ErrMsg],
        msg |-> ""]

\* the first position from i on whose node the editor still has
RECURSIVE NextPresent(_, _, _)
NextPresent(o, i, ns) ==
  IF i > Len(o) THEN i
  ELSE IF o[i] \in Range(ns) THEN i
  ELSE NextPresent(o, i + 1, ns)

\* a run() that lets every call through
RunAcceptedAlways(flag) == TRUE

\* the guard of run(): the call goes on only when the flag is not set
RunAccepted(flag) == ~flag

\* a run() without its catch block
runPromiseUncaught(thrown) == IF thrown THEN "rejected" ELSE "resolved"

\* how the promise returned by run() settles when its try block has finished,
\* normally or by throwing: the catch block logs the error, nothing is rethrown
runPromise(thrown) == "resolved"

\* ------------------------------------------------------------ run(): shared steps
\* a finally block that clears the flag and tells nobody
FinishSilently(r, thrown) ==
  /\ isRunning' = FALSE
  /\ completed' = completed
  /\ runResult' = [runResult EXCEPT ![r] = runPromise(thrown)]
  /\ pc' = [pc EXCEPT ![r] = "done"]

\* The finally block of run() and the settling of its promise; thrown tells
\* that the try block was left by an exception.
Finish(r, thrown) ==
  /\ isRunning' = FALSE
  /\ completed' = [completed EXCEPT ![r] = @ + 1]
  /\ runResult' = [runResult EXCEPT ![r] = runPromise(thrown)]
  /\ pc' = [pc EXCEPT ![r] = "done"]

\* a skip that writes the status skipped to the state map
skipReturnStored(S, nodeId) == [S EXCEPT ![nodeId].status = "skipped"]

\* executeNode's early return for a node that is not pending or has no run
\* method: the state map after it.  The skipped state is a copy handed to the
\* caller, the map is not written.
skipReturn(S, nodeId) == S

\* The for-of loop of run() from position i of array o on, up to its next await:
\* either the loop is over (finally block), or executeNode is entered for the
\* next node the editor has and runs up to its first await.  S is the state
\* map at that point, flag is isRunning.
EnterLoop(r, o, i, S, flag) ==
  LET j == NextPresent(o, i, nodes)
  IN  IF j > Len(o)
      THEN /\ Finish(r, FALSE)
           /\ executionStates' = S
           /\ UNCHANGED <<idx, inputs, log>>
      ELSE LET node      == o[j]
               nodeState == IF S[node].status = "absent" THEN PendingState ELSE S[node]
               running   == [status |-> "running", hasStart |-> TRUE]
               S1        == updateNodeState(S, node, running)
           IN  /\ idx' = [idx EXCEPT ![r] = j]
               /\ isRunning' = flag
               /\ UNCHANGED <<completed, runResult>>
               /\ IF nodeState.status # "pending" \/ kind[node] = "norun"
                  THEN \* return { ...nodeState, status: 'skipped' }
                       /\ executionStates' = skipReturn(S, node)
                       /\ pc' = [pc EXCEPT ![r] = "awaitExec"]
                       /\ UNCHANGED <<inputs, log>>
                  ELSE \* status running, then await getNodeInputs(node)
                       /\ executionStates' = S1
                       /\ log' = notified(S, log, r, node, running)
                       /\ inputs' = [inputs EXCEPT ![r] = getNodeInputs(nodes, conns, S1, node)]
                       /\ pc' = [pc EXCEPT ![r] = "awaitInputs"]

\* a run() call that is between its first await and its finally block
InFlight(r) == pc[r] \in {"awaitInputs", "awaitNode", "awaitExec"}

\* bookkeeping of an accepted run() call: it and the calls in flight overlap
Overlap(r) ==
  [q \in RunIds |-> IF q = r THEN \E p \in RunIds : InFlight(p)
                    ELSE overlapped[q] \/ InFlight(q)]

\* ------------------------------------------------------------ run(): actions
\* run() called while isRunning is set: warn and return
RunRefused ==
  /\ nextRun <= MaxRuns
  /\ ~RunAccepted(isRunning)
  /\ pc' = [pc EXCEPT ![nextRun] = "refused"]
  /\ runResult' = [runResult EXCEPT ![nextRun] = "resolved"]
  /\ nextRun' = nextRun + 1
  /\ UNCHANGED <<otherVars, graphVars, isRunning, executionStates, executionOrder, stops, ord, idx,
                 inputs, pend, given, calls, log, completed, cycleReported, overlapped>>

\* run() called on a graph whose ordering throws: catch, then finally
RunCycle ==
  /\ nextRun <= MaxRuns
  /\ RunAccepted(isRunning)
  /\ calculateExecutionOrder(nodes, conns).thrown
  /\ executionOrder' = <<>>
  /\ executionStates' = resetExecutionStates(executionStates, nodes)
  /\ calls' = [n \in NodeIds |-> 0]
  /\ cycleReported' = [cycleReported EXCEPT ![nextRun] = TRUE]
  /\ Finish(nextRun, TRUE)
  /\ overlapped' = Overlap(nextRun)
  /\ nextRun' = nextRun + 1
  /\ UNCHANGED <<otherVars, graphVars, stops, ord, idx, inputs, pend, given, log>>

\* run() called on a graph that can be ordered: up to the first await
RunStart ==
  /\ nextRun <= MaxRuns
  /\ RunAccepted(isRunning)
  /\ LET res == calculateExecutionOrder(nodes, conns)
     IN  /\ ~res.thrown
         /\ executionOrder' = res.order
         /\ ord' = [ord EXCEPT ![nextRun] = res.order]
         /\ calls' = [n \in NodeIds |-> 0]
         /\ EnterLoop(nextRun, res.order, 1, resetExecutionStates(executionStates, nodes), TRUE)
  /\ overlapped' = Overlap(nextRun)
  /\ nextRun' = nextRun + 1
  /\ UNCHANGED <<otherVars, graphVars, stops, pend, given, cycleReported>>

\* executeNode after await getNodeInputs: the node's run method is invoked with
\* the resolved inputs; a plain run method may throw before returning a promise
Invoke(r) ==
  /\ pc[r] = "awaitInputs"
  /\ LET node   == ord[r][idx[r]]
         failed == [status |-> "error", hasEnd |-> TRUE, error |-> ErrMsg]
     IN  \E work \in WorkOf(kind[node]) :
           /\ given' = [given EXCEPT ![r][node] = work]
           /\ calls' = [calls EXCEPT ![node] = @ + 1]
           /\ IF kind[node] = "raw" /\ work = "throw"
              THEN /\ executionStates' = updateNodeState(executionStates, node, failed)
                   /\ log' = notified(executionStates, log, r, node, failed)
                   /\ pc' = [pc EXCEPT ![r] = "awaitExec"]
                   /\ pend' = pend
              ELSE /\ pend' = [pend EXCEPT ![r] = work]
                   /\ pc' = [pc EXCEPT ![r] = "awaitNode"]
                   /\ UNCHANGED <<executionStates, log>>
  /\ UNCHANGED <<otherVars, graphVars, isRunning, executionOrder, nextRun, stops, ord, idx, inputs,
                 completed, runResult, cycleReported, overlapped>>

\* the promise of the node's run method settles: executeNode stores success or
\* error and returns
Settle(r) ==
  /\ pc[r] = "awaitNode"
  /\ LET node    == ord[r][idx[r]]
         settled == IF kind[node] = "base" THEN BaseNodeRun(node, pend[r])
                    ELSE RawRun(node, pend[r])
         updates == IF settled.how = "resolve"
                    THEN [status |-> "success", hasEnd |-> TRUE, result |-> settled.result]
                    ELSE [status |-> "error", hasEnd |-> TRUE, error |-> settled.msg]
     IN  /\ executionStates' = updateNodeState(executionStates, node, updates)
         /\ log' = notified(executionStates, log, r, node, updates)
  /\ pend' = [pend EXCEPT ![r] = "none"]
  /\ pc' = [pc EXCEPT ![r] = "awaitExec"]
  /\ UNCHANGED <<otherVars, graphVars, isRunning, executionOrder, nextRun, stops, ord, idx, inputs,
                 given, calls, completed, runResult, cycleReported, overlapped>>

\* run() after await executeNode: break on error, else go on with the loop
Continue(r) ==
  /\ pc[r] = "awaitExec"
  /\ IF executionStates[ord[r][idx[r]]].status = "error"
     THEN /\ Finish(r, FALSE)
          /\ UNCHANGED <<executionStates, idx, inputs, log>>
     ELSE EnterLoop(r, ord[r], idx[r] + 1, executionStates, isRunning)
  /\ UNCHANGED <<otherVars, graphVars, executionOrder, nextRun, stops, ord, pend, given, calls,
                 cycleReported, overlapped>>

\* a stop() that also drops the work of the run() calls in flight
StopAbandons ==
  /\ isRunning
  /\ stops < MaxStops
  /\ stops' = stops + 1
  /\ isRunning' = FALSE
  /\ pend' = [r \in RunIds |-> "none"]
  /\ pc' = [r \in RunIds |-> IF InFlight(r) THEN "awaitExec" ELSE pc[r]]
  /\ UNCHANGED <<otherVars, graphVars, executionStates, executionOrder, nextRun, ord, idx,
                 inputs, given, calls, log, completed, runResult, cycleReported,
                 overlapped>>

\* stop(), called while the flag is set (a call that finds it cleared changes
\* nothing)
Stop ==
  /\ isRunning
  /\ stops < MaxStops
  /\ stops' = stops + 1
  /\ isRunning' = FALSE
  /\ UNCHANGED <<otherVars, graphVars, executionStates, executionOrder, nextRun, pc, ord, idx,
                 inputs, pend, given, calls, log, completed, runResult, cycleReported,
                 overlapped>>

\* editor.removeNode(id), called while no run() call is in flight: the node
\* leaves the editor's node list; the call sites remove no connection, and the
\* engine is not told
RemoveNode(n) ==
  /\ \A r \in RunIds : ~InFlight(r)
  /\ n \in Range(nodes)
  /\ Len(nodes) > MaxNodes - MaxRemovals
  /\ nodes' = SelectSeq(nodes, LAMBDA m : m # n)
  /\ UNCHANGED <<otherVars, conns, kind, isRunning, executionStates, executionOrder,
                 nextRun, stops, pc, ord, idx, inputs, pend, given, calls, log, completed, runResult,
                 cycleReported, overlapped>>

\* ------------------------------------------------------------ connections
\* socket types of the editor
SocketType == {"exec", "data", "any"}

\* what a lookup of a port a node does not declare gives
NoSocket == "undefined"

\* port names asked for in addConnection calls; "" is the missing name
OutNames == {"exec", "out", ""}
InNames == {"exec", "in", ""}

\* node.outputs of the three node shapes the model uses: with execution
\* sockets and a data output, with execution sockets and an output of type
\* any, with a data output only
Outputs(n) ==
  [p \in OutNames |->
     CASE n % 3 = 1 -> (IF p = "exec" THEN "exec" ELSE IF p = "out" THEN "data" ELSE NoSocket)
       [] n % 3 = 2 -> (IF p = "exec" THEN "exec" ELSE IF p = "out" THEN "any" ELSE NoSocket)
       [] OTHER     -> (IF p = "out" THEN "data" ELSE NoSocket)]

\* node.inputs of the three shapes, socket type and multipleConnections flag
Inputs(n) ==
  [p \in InNames |->
     CASE n % 3 = 1 -> (IF p = "exec" THEN [socket |-> "exec", multipleConnections |-> FALSE]
                        ELSE IF p = "in" THEN [socket |-> "data", multipleConnections |-> FALSE]
                        ELSE [socket |-> NoSocket, multipleConnections |-> FALSE])
       [] n % 3 = 2 -> (IF p = "exec" THEN [socket |-> "exec", multipleConnections |-> FALSE]
                        ELSE IF p = "in" THEN [socket |-> "any", multipleConnections |-> TRUE]
                        ELSE [socket |-> NoSocket, multipleConnections |-> FALSE])
       [] OTHER     -> (IF p = "in" THEN [socket |-> "data", multipleConnections |-> TRUE]
                        ELSE [socket |-> NoSocket, multipleConnections |-> FALSE])]

\* JavaScript values handed to validateConnection: a node object, or the id
\* string of a node as a connection holds it in source and target
NodeObject(n) == [isNode |-> TRUE, of |-> n]
IdString(n) == [isNode |-> FALSE, of |-> n]

\* value.id: the id of a node object, undefined on a string
IdProperty(v) == IF v.isNode THEN v.of ELSE Undef

\* the connections addConnection can be called with
Requests ==
  [source : NodeIds, sourceOutput : OutNames, target : NodeIds, targetInput : InNames]

areSocketsCompatible(sourceType, targetType) ==
  IF sourceType = "any" \/ targetType = "any" THEN TRUE
  ELSE IF sourceType = "exec" THEN targetType = "exec"
  ELSE IF sourceType = "data" THEN targetType = "data"
  ELSE sourceType = targetType

\* validateConnection on two JavaScript values and two port names; the lookups
\* in outputs and inputs are reached with node objects only
validateConnection(sourceNode, sourceOutput, targetNode, targetInput) ==
  IF IdProperty(sourceNode) = IdProperty(targetNode) THEN FALSE
  ELSE LET sourceSocket == Outputs(sourceNode.of)[sourceOutput]
           targetSocket == Inputs(targetNode.of)[targetInput].socket
       IN  IF sourceSocket = NoSocket \/ targetSocket = NoSocket THEN FALSE
           ELSE areSocketsCompatible(sourceSocket, targetSocket)

\* the connectioncreate pipe of the validating editor: the fields of the
\* connection (its source and target are id strings) go to validateConnection;
\* TRUE lets the connection through
connectioncreatePipe(data) ==
  IF data.sourceOutput = "" \/ data.targetInput = "" THEN FALSE
  ELSE validateConnection(IdString(data.source), data.sourceOutput,
                          IdString(data.target), data.targetInput)

\* editor.addConnection(new ClassicPreset.Connection(source, sourceOutput,
\* target, targetInput)): the validating editor asks its pipe, the editor set
\* up without one adds the connection
AddConnection(data) ==
  /\ Len(conns) < MaxConns
  /\ LET allowed == IF validated THEN connectioncreatePipe(data) ELSE TRUE
     IN  /\ conns' = IF allowed THEN Append(conns, data) ELSE conns
         /\ lastConn' = [made |-> TRUE, data |-> data, piped |-> validated, added |-> allowed]
  /\ UNCHANGED <<validated, nodes, kind, runVars, memVars, histVars, wsVars>>

\* ------------------------------------------------------------ node memory
\* Strings that the storage keys are built from are sequences of characters.
MaxNumber == 1
MaxTtl == 1
MaxNow == 1

NAMESPACE == <<"r", "e", "t", "e", "-", "m", "e", "m", "o", "r", "y", "-">>

\* node ids and memory keys the callers use
IdStrings == { <<"a">>, <<"b">>, <<"a", "-", "b">> }
KeyStrings == { <<"k">>, <<"b", "-", "k">> }

\* `${NAMESPACE}${nodeId}-`
prefix(nodeId) == NAMESPACE \o nodeId \o <<"-">>

\* key.startsWith(p)
startsWith(s, p) == Len(s) >= Len(p) /\ SubSeq(s, 1, Len(p)) = p

\* JavaScript values
JsNull == <<"null">>
JsUndefined == <<"undefined">>
JsNumber(n) == <<"number", n>>
JsBoolean(b) == <<"boolean", b>>
JsString(s) == <<"string", s>>
\* the object { value, expires } of storeWithExpiration
Item(value, expires) == <<"object", value, expires>>

\* Date.now() as the memory nodes read it, and the numbers a stored text can hold
Clock == 1..MaxNow
JsNumbers == (0..MaxNumber) \cup { now + ttl * 1000 : now \in Clock, ttl \in 1..MaxTtl }

\* the values stored without loss as JSON text
JSONValues ==
  { JsNumber(n) : n \in 0..MaxNumber }
    \cup { JsBoolean(FALSE), JsString(<<>>), JsString(<<"x">>), JsNull }

\* the values callers pass to set
Values == JSONValues \cup { JsUndefined }

\* a value in a condition: false, 0, "", null and undefined are falsy
Truthy(v) ==
  v \notin { JsBoolean(FALSE), JsNumber(0), JsString(<<>>), JsNull, JsUndefined }

\* The text JSON.stringify produces for a value other than undefined, as a
\* sequence of tokens.
RECURSIVE jsonText(_)
jsonText(v) ==
  CASE v[1] = "number" -> <<ToString(v[2])>>
    [] v[1] = "boolean" -> IF v[2] THEN <<"true">> ELSE <<"false">>
    [] v[1] = "string" -> <<"\"">> \o v[2] \o <<"\"">>
    [] v[1] = "null" -> <<"null">>
    [] v[1] = "object" ->
         <<"{", "\"value\":">> \o jsonText(v[2])
           \o <<",", "\"expires\":">> \o jsonText(v[3]) \o <<"}">>

\* JSON.stringify(value): a text, or undefined for undefined
JSONstringify(v) ==
  IF v = JsUndefined THEN [defined |-> FALSE]
  ELSE [defined |-> TRUE, text |-> jsonText(v)]

\* String(x) of what JSON.stringify returned, as localStorage.setItem stores it
StoredText(s) == IF s.defined THEN s.text ELSE <<"undefined">>

\* JSON.parse(text): the value, or ok = FALSE when it throws a SyntaxError
RECURSIVE JSONparse(_)
JSONparse(text) ==
  LET n == Len(text)
      Thrown == [ok |-> FALSE]
      Parsed(v) == [ok |-> TRUE, value |-> v]
  IN  IF n = 0 THEN Thrown
      ELSE IF n = 1 /\ (\E k \in JsNumbers : ToString(k) = text[1])
        THEN Parsed(JsNumber(CHOOSE k \in JsNumbers : ToString(k) = text[1]))
      ELSE IF text = <<"true">> THEN Parsed(JsBoolean(TRUE))
      ELSE IF text = <<"false">> THEN Parsed(JsBoolean(FALSE))
      ELSE IF text = <<"null">> THEN Parsed(JsNull)
      ELSE IF n >= 2 /\ text[1] = "\"" /\ text[n] = "\""
        THEN Parsed(JsString(SubSeq(text, 2, n - 1)))
      ELSE IF /\ n >= 6
              /\ text[1] = "{" /\ text[2] = "\"value\":" /\ text[n] = "}"
              /\ \E p \in 3..(n - 2) : text[p] = "," /\ text[p + 1] = "\"expires\":"
        THEN LET p == CHOOSE q \in 3..(n - 2) : text[q] = "," /\ text[q + 1] = "\"expires\":"
                 a == JSONparse(SubSeq(text, 3, p - 1))
                 b == JSONparse(SubSeq(text, p + 2, n - 1))
             IN  IF a.ok /\ b.ok THEN Parsed(Item(a.value, b.value)) ELSE Thrown
      ELSE Thrown

\* a storage without items
EmptyStorage == [k \in {} |-> <<>>]

\* a get that tests the parsed value instead of the stored text
getTruthy(ls, nodeId, key) ==
  LET k == prefix(nodeId) \o key
  IN  IF k \notin DOMAIN ls THEN JsNull
      ELSE LET parsed == JSONparse(ls[k])
           IN  IF parsed.ok /\ Truthy(parsed.value) THEN parsed.value ELSE JsNull

\* NodeMemory.get(key): what the promise resolves to.  getItem gives null for
\* a missing item; null and the empty text are falsy; a text that does not
\* parse is caught and gives null.
get(ls, nodeId, key) ==
  LET k == prefix(nodeId) \o key
  IN  IF k \notin DOMAIN ls \/ ls[k] = <<>> THEN JsNull
      ELSE LET parsed == JSONparse(ls[k])
           IN  IF parsed.ok THEN parsed.value ELSE JsNull

\* NodeMemory.set(key, value): the storage after it
set(ls, nodeId, key, value) ==
  LET k == prefix(nodeId) \o key
  IN  [x \in DOMAIN ls \cup {k} |->
         IF x = k THEN StoredText(JSONstringify(value)) ELSE ls[x]]

\* NodeMemory.delete(key): the storage after it
delete(ls, nodeId, key) ==
  LET k == prefix(nodeId) \o key
  IN  [x \in DOMAIN ls \ {k} |-> ls[x]]

\* NodeMemory.clear(): the storage after it, without the keys that start with
\* the prefix of the node
clear(ls, nodeId) ==
  [x \in { y \in DOMAIN ls : ~startsWith(y, prefix(nodeId)) } |-> ls[x]]

\* what an instance's own calls last did to a key
Nothing == [did |-> "nothing"]
Removed == [did |-> "removed"]
DidSet(value) == [did |-> "set", value |-> value]

\* instances constructed for the node ids of ids, each owned by what owner says
Constructs(ids, owner) ==
  /\ localStorage = EmptyStorage
  /\ instances = [i \in ids |-> owner[i]]
  /\ expect = [i \in ids |-> [k \in KeyStrings |-> Nothing]]
  /\ memLast = NoCall

MemorySet(id, key, value) ==
  /\ id \in DOMAIN instances
  /\ localStorage' = set(localStorage, id, key, value)
  /\ expect' = [expect EXCEPT ![id][key] = DidSet(value)]
  /\ memLast' = [made |-> TRUE, op |-> "set", id |-> id, key |-> key,
                 result |-> JsUndefined]
  /\ UNCHANGED <<instances, notMemVars>>

MemoryGet(id, key) ==
  /\ id \in DOMAIN instances
  /\ memLast' = [made |-> TRUE, op |-> "get", id |-> id, key |-> key,
                 result |-> get(localStorage, id, key)]
  /\ UNCHANGED <<localStorage, expect, instances, notMemVars>>

MemoryDelete(id, key) ==
  /\ id \in DOMAIN instances
  /\ localStorage' = delete(localStorage, id, key)
  /\ expect' = [expect EXCEPT ![id][key] = Removed]
  /\ memLast' = [made |-> TRUE, op |-> "delete", id |-> id, key |-> key,
                 result |-> JsUndefined]
  /\ UNCHANGED <<instances, notMemVars>>

MemoryClear(id) ==
  /\ id \in DOMAIN instances
  /\ localStorage' = clear(localStorage, id)
  /\ expect' = [expect EXCEPT ![id] = [k \in KeyStrings |-> Removed]]
  /\ memLast' = [made |-> TRUE, op |-> "clear", id |-> id, key |-> <<>>,
                 result |-> JsUndefined]
  /\ UNCHANGED <<instances, notMemVars>>

\* ------------------------------------------------------------ memory nodes
\* this.data of a Memory Write node, and the inputs its executeNode is given
WriteData == [memoryKey : KeyStrings \cup {<<>>}, autoExecute : BOOLEAN, ttl : 0..MaxTtl]
WriteInputs ==
  [key : {<<>>} \cup { <<k>> : k \in KeyStrings },
   value : {<<>>} \cup { <<v>> : v \in JSONValues },
   trigger : BOOLEAN]

\* this.data of a Memory Read node, and the inputs its executeNode is given
ReadData ==
  [memoryKey : KeyStrings \cup {<<>>}, useDefault : BOOLEAN,
   defaultValue : { JsString(<<>>) }]
ReadInputs ==
  [key : {<<>>} \cup { <<k>> : k \in KeyStrings },
   default : {<<>>, <<JsNumber(0)>>}]

\* inputs.key?.[0] || this.data.memoryKey
KeyOf(inp, data) ==
  IF inp.key # <<>> /\ inp.key[1] # <<>> THEN inp.key[1] ELSE data.memoryKey

\* what executeNode of a Memory Write node resolves to
WriteOutput(success, trigger, error) ==
  [success |-> success, trigger |-> trigger, error |-> error]

\* storeWithExpiration(key, value, ttl): the item it hands to memory.set
storeWithExpiration(value, ttl, now) ==
  Item(value, IF ttl > 0 THEN JsNumber(now + ttl * 1000) ELSE JsNull)

\* MemoryWriteNode.executeNode(inputs, context)
MemoryWriteNode(id, data, inp, now) ==
  LET key == KeyOf(inp, data)
      Returns(out) ==
        /\ memLast' = [made |-> TRUE, op |-> "write", id |-> id, key |-> key,
                       result |-> out]
        /\ UNCHANGED <<localStorage, expect>>
  IN  /\ id \in DOMAIN instances /\ instances[id] = "memory-write"
      /\ IF key = <<>> THEN Returns(WriteOutput(FALSE, "undefined", ""))
         ELSE IF ~data.autoExecute /\ ~inp.trigger
           THEN Returns(WriteOutput(FALSE, "false", ""))
         ELSE IF inp.value = <<>>
           THEN Returns(WriteOutput(FALSE, "false", "No value provided to write"))
         ELSE /\ localStorage' =
                   set(localStorage, id, key, storeWithExpiration(inp.value[1], data.ttl, now))
              /\ expect' = [expect EXCEPT ![id][key] = DidSet(inp.value[1])]
              /\ memLast' = [made |-> TRUE, op |-> "write", id |-> id, key |-> key,
                             result |-> WriteOutput(TRUE, "true", "")]
      /\ UNCHANGED <<instances, notMemVars>>

\* MemoryReadNode.executeNode(inputs, context)
MemoryReadNode(id, data, inp) ==
  LET key == KeyOf(inp, data)
      value == get(localStorage, id, key)
      exists == value # JsNull /\ value # JsUndefined
      defaultValue == IF inp.default # <<>> THEN inp.default[1] ELSE data.defaultValue
      out == IF key = <<>> THEN [value |-> JsNull, exists |-> FALSE]
             ELSE IF ~exists /\ data.useDefault THEN [value |-> defaultValue, exists |-> FALSE]
             ELSE IF ~exists THEN [value |-> JsNull, exists |-> FALSE]
             ELSE [value |-> value, exists |-> TRUE]
  IN  /\ id \in DOMAIN instances /\ instances[id] = "memory-read"
      /\ memLast' = [made |-> TRUE, op |-> "read", id |-> id, key |-> key,
                     result |-> out]
      /\ UNCHANGED <<localStorage, expect, instances, notMemVars>>

\* ------------------------------------------------------------ history manager
MaxUserOps == 3
MaxHistNodes == 2
MaxHistConns == 1

maxHistorySize == 50

HistNodeIds == 1..MaxHistNodes
HistConnIds == 1..MaxHistConns

\* an Action of the history, by its type and the id of its node or connection
HistAction(type, id) == [type |-> type, id |-> id]

\* an event of the editor on its way to the pipes, and what caused it
EditorEvent(type, id, cause) == [type |-> type, id |-> id, cause |-> cause]

canUndo == Len(history) > 0
canRedo == Len(redoStack) > 0

\* addAction(action): the history and the redo stack after it
addAction(h, r, flag, action) ==
  IF flag THEN [history |-> h, redoStack |-> r]
  ELSE LET pushed == Append(h, action)
       IN  [history |-> IF Len(pushed) > maxHistorySize THEN Tail(pushed) ELSE pushed,
            redoStack |-> <<>>]

\* the ActionType the pipes of setupListeners record an event as
TrackedAs(type) ==
  CASE type = "nodecreated" -> "node-added"
    [] type = "noderemoved" -> "node-removed"
    [] type = "connectioncreated" -> "connection-created"
    [] type = "connectionremoved" -> "connection-removed"

\* the pipes of setupListeners on one event: the history and the redo stack
\* after them
setupListeners(h, r, flag, e) ==
  IF ~flag THEN addAction(h, r, flag, HistAction(TrackedAs(e.type), e.id))
  ELSE [history |-> h, redoStack |-> r]

\* editor.removeNode(id) and editor.removeConnection(id), not awaited: the
\* editor drops the item and emits the removed event on a later tick; a call
\* for an item the editor does not have rejects and emits nothing
Removal(ns, cs, q, type, id, cause) ==
  IF type = "node" /\ id \in ns
    THEN [nodes |-> ns \ {id}, conns |-> cs,
          events |-> Append(q, EditorEvent("noderemoved", id, cause))]
  ELSE IF type = "connection" /\ id \in cs
    THEN [nodes |-> ns, conns |-> cs \ {id},
          events |-> Append(q, EditorEvent("connectionremoved", id, cause))]
  ELSE [nodes |-> ns, conns |-> cs, events |-> q]

\* executeUndo(action): the editor and the events in flight after its calls
executeUndo(ns, cs, q, action) ==
  CASE action.type = "node-added" -> Removal(ns, cs, q, "node", action.id, "undo")
    [] action.type = "connection-created" -> Removal(ns, cs, q, "connection", action.id, "undo")
    [] OTHER -> [nodes |-> ns, conns |-> cs, events |-> q]

\* executeRedo(action): the editor and the events in flight after its calls
executeRedo(ns, cs, q, action) ==
  CASE action.type = "node-removed" -> Removal(ns, cs, q, "node", action.id, "redo")
    [] action.type = "connection-removed" -> Removal(ns, cs, q, "connection", action.id, "redo")
    [] OTHER -> [nodes |-> ns, conns |-> cs, events |-> q]

\* the user adds a node to the editor
EditorAddNode(n) ==
  /\ histPc = "idle" /\ userOps < MaxUserOps
  /\ n \notin edNodes
  /\ edNodes' = edNodes \cup {n}
  /\ events' = Append(events, EditorEvent("nodecreated", n, "user"))
  /\ userOps' = userOps + 1
  /\ undone' = NoCall
  /\ UNCHANGED <<history, redoStack, isUndoRedoInProgress, edConns, histPc, notHistVars>>

\* the user removes a node from the editor
EditorRemoveNode(n) ==
  /\ histPc = "idle" /\ userOps < MaxUserOps
  /\ n \in edNodes
  /\ edNodes' = edNodes \ {n}
  /\ events' = Append(events, EditorEvent("noderemoved", n, "user"))
  /\ userOps' = userOps + 1
  /\ undone' = NoCall
  /\ UNCHANGED <<history, redoStack, isUndoRedoInProgress, edConns, histPc, notHistVars>>

\* the user adds a connection to the editor
EditorAddConnection(c) ==
  /\ histPc = "idle" /\ userOps < MaxUserOps
  /\ c \notin edConns
  /\ edConns' = edConns \cup {c}
  /\ events' = Append(events, EditorEvent("connectioncreated", c, "user"))
  /\ userOps' = userOps + 1
  /\ undone' = NoCall
  /\ UNCHANGED <<history, redoStack, isUndoRedoInProgress, edNodes, histPc, notHistVars>>

\* the user removes a connection from the editor
EditorRemoveConnection(c) ==
  /\ histPc = "idle" /\ userOps < MaxUserOps
  /\ c \in edConns
  /\ edConns' = edConns \ {c}
  /\ events' = Append(events, EditorEvent("connectionremoved", c, "user"))
  /\ userOps' = userOps + 1
  /\ undone' = NoCall
  /\ UNCHANGED <<history, redoStack, isUndoRedoInProgress, edNodes, histPc, notHistVars>>

\* the editor delivers its oldest event in flight to the pipes of the
\* history manager
DeliverEvent ==
  /\ events # <<>>
  /\ LET after == setupListeners(history, redoStack, isUndoRedoInProgress, Head(events))
     IN  /\ history' = after.history
         /\ redoStack' = after.redoStack
  /\ events' = Tail(events)
  /\ UNCHANGED <<isUndoRedoInProgress, edNodes, edConns, histPc, userOps, undone, notHistVars>>

\* undo(), up to its await of executeUndo
Undo ==
  /\ histPc = "idle"
  /\ canUndo
  /\ LET action == history[Len(history)]
         after == executeUndo(edNodes, edConns, events, action)
     IN  /\ history' = SubSeq(history, 1, Len(history) - 1)
         /\ redoStack' = Append(redoStack, action)
         /\ edNodes' = after.nodes
         /\ edConns' = after.conns
         /\ events' = after.events
  /\ isUndoRedoInProgress' = TRUE
  /\ histPc' = "undo"
  /\ undone' = NoCall
  /\ UNCHANGED <<userOps, notHistVars>>

\* undo(), from its await on: the flag is cleared
UndoResume ==
  /\ histPc = "undo"
  /\ isUndoRedoInProgress' = FALSE
  /\ histPc' = "idle"
  /\ undone' = [made |-> TRUE, action |-> redoStack[Len(redoStack)],
                historyLength |-> Len(history),
                clean |-> \A i \in 1..Len(events) : events[i].cause # "user"]
  /\ UNCHANGED <<history, redoStack, events, edNodes, edConns, userOps, notHistVars>>

\* redo(), up to its await of executeRedo
Redo ==
  /\ histPc = "idle"
  /\ canRedo
  /\ LET action == redoStack[Len(redoStack)]
         after == executeRedo(edNodes, edConns, events, action)
     IN  /\ redoStack' = SubSeq(redoStack, 1, Len(redoStack) - 1)
         /\ history' = Append(history, action)
         /\ edNodes' = after.nodes
         /\ edConns' = after.conns
         /\ events' = after.events
  /\ isUndoRedoInProgress' = TRUE
  /\ histPc' = "redo"
  /\ undone' = NoCall
  /\ UNCHANGED <<userOps, notHistVars>>

\* redo(), from its await on: the flag is cleared
RedoResume ==
  /\ histPc = "redo"
  /\ isUndoRedoInProgress' = FALSE
  /\ histPc' = "idle"
  /\ UNCHANGED <<history, redoStack, events, edNodes, edConns, userOps, undone, notHistVars>>

\* ------------------------------------------------------------ WebSocket node
MaxSockets == 3
MaxReconnectAttempts == 2

\* this.data.maxReconnectAttempts
maxReconnectAttempts == MaxReconnectAttempts

\* readyState of a WebSocket object
SocketStates == {"connecting", "open", "closing", "closed"}

\* handleDisconnection(): the fields after it.  The timer is armed when
\* autoReconnect is set and attempts remain.
handleDisconnection(auto, attempts, timer) ==
  IF auto /\ attempts < maxReconnectAttempts
  THEN [isConnected |-> FALSE, reconnectAttempts |-> attempts + 1, reconnectTimer |-> "armed"]
  ELSE [isConnected |-> FALSE, reconnectAttempts |-> attempts, reconnectTimer |-> timer]

\* handleConnect() in production mode, up to the promise it returns: a node
\* that is connected does nothing, else a new WebSocket is created and its
\* handlers are attached
handleConnect ==
  IF isConnected
  THEN UNCHANGED <<webSocket, sockets>>
  ELSE /\ Len(sockets) < MaxSockets
       /\ sockets' = Append(sockets, "connecting")
       /\ webSocket' = Len(sockets) + 1

\* executeNode({ connect: true }) in production mode
ConnectAction ==
  /\ ~demo /\ ~destroyed
  /\ handleConnect
  /\ finalOff' = FALSE
  /\ UNCHANGED <<demo, autoReconnect, isConnected, reconnectAttempts, reconnectTimer,
                 delays, destroyed, notWsVars>>

\* executeNode({ connect: true }) in demo mode: a delay of 500 ms is started
\* unless the node is connected
DemoConnectAction ==
  /\ demo /\ ~destroyed
  /\ delays' = IF isConnected THEN delays ELSE delays \cup {"connect"}
  /\ finalOff' = FALSE
  /\ UNCHANGED <<demo, autoReconnect, webSocket, sockets, isConnected, reconnectAttempts,
                 reconnectTimer, destroyed, notWsVars>>

\* executeNode({ disconnect: true }) in production mode, handleDisconnect: a
\* node that is not connected does nothing, else the socket it refers to is
\* closed and forgotten
DisconnectAction ==
  /\ ~demo /\ ~destroyed
  /\ isConnected
  /\ sockets' = IF webSocket # 0 /\ sockets[webSocket] \in {"connecting", "open"}
                THEN [sockets EXCEPT ![webSocket] = "closing"] ELSE sockets
  /\ webSocket' = 0
  /\ isConnected' = FALSE
  /\ finalOff' = TRUE
  /\ UNCHANGED <<demo, autoReconnect, reconnectAttempts, reconnectTimer, delays,
                 destroyed, notWsVars>>

\* executeNode({ disconnect: true }) in demo mode: a delay of 300 ms is started
DemoDisconnectAction ==
  /\ demo /\ ~destroyed
  /\ isConnected
  /\ delays' = delays \cup {"disconnect"}
  /\ finalOff' = TRUE
  /\ UNCHANGED <<demo, autoReconnect, webSocket, sockets, isConnected, reconnectAttempts,
                 reconnectTimer, destroyed, notWsVars>>

\* a simulated delay of demo mode ends and the flag is set or cleared
DelayEnds(d) ==
  /\ d \in delays
  /\ delays' = delays \ {d}
  /\ isConnected' = (d = "connect")
  /\ UNCHANGED <<demo, autoReconnect, webSocket, sockets, reconnectAttempts,
                 reconnectTimer, destroyed, finalOff, notWsVars>>

\* the browser opens socket s: its onopen handler runs
SocketOpens(s) ==
  /\ s \in 1..Len(sockets) /\ sockets[s] = "connecting"
  /\ sockets' = [sockets EXCEPT ![s] = "open"]
  /\ isConnected' = TRUE
  /\ reconnectAttempts' = 0
  /\ UNCHANGED <<demo, autoReconnect, webSocket, reconnectTimer, delays, destroyed,
                 finalOff, notWsVars>>

\* socket s is closed, by the peer, by a failed connection or at the end of
\* the closing handshake that close() began: its onclose handler runs
\* handleDisconnection
SocketCloses(s) ==
  /\ s \in 1..Len(sockets) /\ sockets[s] # "closed"
  /\ sockets' = [sockets EXCEPT ![s] = "closed"]
  /\ LET after == handleDisconnection(autoReconnect, reconnectAttempts, reconnectTimer)
     IN  /\ isConnected' = after.isConnected
         /\ reconnectAttempts' = after.reconnectAttempts
         /\ reconnectTimer' = after.reconnectTimer
  /\ UNCHANGED <<demo, autoReconnect, webSocket, delays, destroyed, finalOff, notWsVars>>

\* the reconnect timer fires: handleConnect()
TimerFires ==
  /\ reconnectTimer = "armed"
  /\ reconnectTimer' = "fired"
  /\ handleConnect
  /\ UNCHANGED <<demo, autoReconnect, isConnected, reconnectAttempts, delays, destroyed,
                 finalOff, notWsVars>>

\* onDestroy(): the timer is cleared, the socket the node refers to is closed
\* and forgotten
onDestroy ==
  /\ ~destroyed
  /\ destroyed' = TRUE
  /\ reconnectTimer' = IF reconnectTimer = "armed" THEN "fired" ELSE reconnectTimer
  /\ sockets' = IF webSocket # 0 /\ sockets[webSocket] \in {"connecting", "open"}
                THEN [sockets EXCEPT ![webSocket] = "closing"] ELSE sockets
  /\ webSocket' = 0
  /\ finalOff' = (finalOff \/ isConnected)
  /\ UNCHANGED <<demo, autoReconnect, isConnected, reconnectAttempts, delays, notWsVars>>

\* ------------------------------------------------------------ queries
\* getNodeState(nodeId): the stored state, AbsentState for undefined
getNodeState(nodeId) == executionStates[nodeId]

getExecutionOrder == executionOrder

isExecutionComplete == ~isRunning /\ Len(executionOrder) > 0

\* what the callers of run() and the event loop can do
NextRunOnly ==
  \/ RunRefused
  \/ RunCycle
  \/ RunStart
  \/ \E r \in RunIds : Invoke(r)
  \/ \E r \in RunIds : Settle(r)
  \/ \E r \in RunIds : Continue(r)

Next ==
  \/ RunRefused
  \/ RunCycle
  \/ RunStart
  \/ \E r \in RunIds : Invoke(r)
  \/ \E r \in RunIds : Settle(r)
  \/ \E r \in RunIds : Continue(r)
  \/ Stop

\* the engine with callers that use run() and stop()
Spec == Init /\ [][Next]_vars

\* the engine with callers that use run() only
SpecRunOnly == InitRunOnly /\ [][NextRunOnly]_vars

\* what can happen when the user also removes nodes between runs
NextEdit ==
  \/ RunRefused
  \/ RunCycle
  \/ RunStart
  \/ \E r \in RunIds : Invoke(r)
  \/ \E r \in RunIds : Settle(r)
  \/ \E r \in RunIds : Continue(r)
  \/ \E n \in NodeIds : RemoveNode(n)

\* the engine with callers that use run() and remove nodes between runs
SpecEdit == InitEdit /\ [][NextEdit]_vars

\* what the users of an editor can do to its connections
NextConnect == \E data \in Requests : AddConnection(data)

\* an editor, set up with or without the validating pipe, whose users add
\* connections
SpecConnect == InitConnect /\ [][NextConnect]_vars

\* the engine and the editor at rest, for the components that run without them
EngineIdle ==
  /\ Constructed
  /\ conns = <<>>
  /\ kind = [n \in NodeIds |-> "raw"]

\* one NodeMemory instance, for any node id
InitMemoryOne ==
  /\ EngineIdle
  /\ ConnectIdle
  /\ HistIdle
  /\ WsIdle
  /\ \E id \in IdStrings : Constructs({id}, [i \in {id} |-> "memory"])

\* two NodeMemory instances, for any two different node ids
InitMemory ==
  /\ EngineIdle
  /\ ConnectIdle
  /\ HistIdle
  /\ WsIdle
  /\ \E a \in IdStrings : \E b \in IdStrings \ {a} :
       Constructs({a, b}, [i \in {a, b} |-> "memory"])

\* a Memory Write node and a Memory Read node of one workflow
InitMemoryNodes ==
  /\ EngineIdle
  /\ ConnectIdle
  /\ HistIdle
  /\ WsIdle
  /\ \E w \in IdStrings : \E r \in IdStrings \ {w} :
       Constructs({w, r}, [i \in {w, r} |-> IF i = w THEN "memory-write" ELSE "memory-read"])

\* what the holders of NodeMemory instances can do
NextMemory ==
  \/ \E id \in IdStrings : \E key \in KeyStrings : \E value \in Values :
       MemorySet(id, key, value)
  \/ \E id \in IdStrings : \E key \in KeyStrings : MemoryGet(id, key)
  \/ \E id \in IdStrings : \E key \in KeyStrings : MemoryDelete(id, key)
  \/ \E id \in IdStrings : MemoryClear(id)

\* what executing the memory nodes of a workflow does
NextMemoryNodes ==
  \/ \E id \in IdStrings : \E data \in WriteData : \E inp \in WriteInputs :
       \E now \in Clock : MemoryWriteNode(id, data, inp, now)
  \/ \E id \in IdStrings : \E data \in ReadData : \E inp \in ReadInputs :
       MemoryReadNode(id, data, inp)

\* one NodeMemory instance and its callers
SpecMemoryOne == InitMemoryOne /\ [][NextMemory]_vars

\* two NodeMemory instances and their callers
SpecMemory == InitMemory /\ [][NextMemory]_vars

\* a Memory Write node and a Memory Read node executed in any order
SpecMemoryNodes == InitMemoryNodes /\ [][NextMemoryNodes]_vars

\* a history manager on an editor without nodes; the rest of the program is idle
InitHistory ==
  /\ EngineIdle
  /\ ConnectIdle
  /\ MemIdle
  /\ HistIdle
  /\ WsIdle

\* what the user of the editor and of the undo and redo buttons can do, and
\* the editor's delivery of its events
NextHistory ==
  \/ \E n \in HistNodeIds : EditorAddNode(n)
  \/ \E n \in HistNodeIds : EditorRemoveNode(n)
  \/ \E c \in HistConnIds : EditorAddConnection(c)
  \/ \E c \in HistConnIds : EditorRemoveConnection(c)
  \/ DeliverEvent
  \/ Undo
  \/ UndoResume
  \/ Redo
  \/ RedoResume

\* the history manager, the editor it watches and their user
SpecHistory == InitHistory /\ [][NextHistory]_vars

\* a WebSocket node as constructed, in either mode, with autoReconnect on or
\* off; the rest of the program is idle
InitWebSocket ==
  /\ EngineIdle
  /\ ConnectIdle
  /\ MemIdle
  /\ HistIdle
  /\ WsConstructed
  /\ demo \in BOOLEAN
  /\ autoReconnect \in BOOLEAN

\* what the workflow, the browser and the network can do to a WebSocket node
NextWebSocket ==
  \/ ConnectAction
  \/ DemoConnectAction
  \/ DisconnectAction
  \/ DemoDisconnectAction
  \/ \E d \in {"connect", "disconnect"} : DelayEnds(d)
  \/ \E s \in 1..MaxSockets : SocketOpens(s)
  \/ \E s \in 1..MaxSockets : SocketCloses(s)
  \/ TimerFires
  \/ onDestroy

\* a WebSocket node, its sockets and its timer
SpecWebSocket == InitWebSocket /\ [][NextWebSocket]_vars

\* The event loop runs every continuation that is ready, and the promise of an
\* invoked run method settles.
Fairness ==
  \A r \in RunIds :
    WF_vars(Invoke(r)) /\ WF_vars(Settle(r)) /\ WF_vars(Continue(r))

\* the engine with callers that use run() and stop(), under a fair event loop
SpecLive == InitLive /\ [][Next]_vars /\ Fairness

\* ------------------------------------------------------------ vocabulary
Status(n) == executionStates[n].status

\* the run method of node n, invoked by run() call r, rejected or threw
RunRejected(r, n) == kind[n] # "base" /\ given[r][n] \in {"reject", "throw"}

\* the run method of node n, invoked by run() call r, resolved
RunResolved(r, n) == given[r][n] # "none" /\ ~RunRejected(r, n)

\* every connection joins two nodes the editor has
WellFormed(ns, cs) ==
  \A i \in 1..Len(cs) : cs[i].source \in Range(ns) /\ cs[i].target \in Range(ns)

\* run() call r is accepted in this step
Accepted(r) == pc[r] = "idle" /\ pc'[r] \notin {"idle", "refused"}

\* run() call r has finished and no later call has been accepted
LastFinished(r) ==
  pc[r] = "done" /\ \A q \in RunIds : q > r => pc[q] \in {"idle", "refused"}

\* ------------------------------------------------------------ C1
\* the fail-fast outcome of run() call r: if the run method of the node at
\* position k rejected or threw and all before it resolved, that node is in
\* error, the ones before it are success, the ones after it are pending and
\* were not invoked
FailFastAt(r) ==
  \A k \in 1..Len(ord[r]) :
    (RunRejected(r, ord[r][k]) /\ \A j \in 1..(k - 1) : RunResolved(r, ord[r][j]))
    => /\ Status(ord[r][k]) = "error"
       /\ \A j \in 1..(k - 1) : Status(ord[r][j]) = "success"
       /\ \A j \in (k + 1)..Len(ord[r]) :
            Status(ord[r][j]) = "pending" /\ calls[ord[r][j]] = 0

\* C1: whenever a run() call finishes, it finishes with the fail-fast outcome:
\* the node whose run method failed is in error, its predecessors in the order
\* are success, its successors are pending and were never invoked.
C1_FailFast ==
  [][\A r \in RunIds : (pc[r] # "done" /\ pc'[r] = "done") => FailFastAt(r)']_vars

\* ------------------------------------------------------------ C2
\* C2: once the order of a graph has been computed, the source of every
\* connection, exec or data, stands strictly before its target in it.
C2_TopologicalSoundness ==
  executionOrder # <<>> =>
    \A i \in 1..Len(conns) :
      /\ Pos(executionOrder, conns[i].source) > 0
      /\ Pos(executionOrder, conns[i].source) < Pos(executionOrder, conns[i].target)

\* an order was computed for a graph with an exec and a data connection whose
\* order differs from the insertion order of the nodes
C2_Witness ==
  /\ Len(executionOrder) = MaxNodes
  /\ executionOrder # nodes
  /\ \E i, j \in 1..Len(conns) :
       conns[i].sourceOutput = "exec" /\ conns[j].sourceOutput = "out"

\* ------------------------------------------------------------ C3
\* C3: on a graph with a directed cycle no node ever leaves pending, no run
\* method is invoked, no state change is notified, and every run() call that
\* has returned reported the cycle.
C3_CycleExecutesNothing ==
  HasCycle(conns) =>
    /\ \A n \in NodeIds : Status(n) \in {"absent", "pending"} /\ calls[n] = 0
    /\ \A r \in RunIds :
         /\ log[r] = <<>>
         /\ \A n \in NodeIds : given[r][n] = "none"
         /\ pc[r] \in {"idle", "done"}
         /\ pc[r] = "done" => cycleReported[r]

\* run() has returned on a graph whose first node is not on the cycle
C3_Witness ==
  /\ HasCycle(conns)
  /\ nodes[1] \notin ReachWithin(conns, {nodes[1]}, MaxNodes)
  /\ pc[1] = "done"
  /\ cycleReported[1]
  /\ Status(nodes[1]) = "pending"

\* ------------------------------------------------------------ C4
LegalTransition(s, t) ==
  \/ t = s
  \/ s = "pending" /\ t = "running"
  \/ s = "running" /\ t \in {"success", "error"}

\* C4: between two resets a node's run method is invoked at most once and its
\* stored status only moves pending -> running -> success or error.
C4_NodeStateMachine ==
  [][\A n \in NodeIds :
       /\ calls'[n] <= 1
       /\ nextRun' = nextRun => LegalTransition(Status(n), Status(n)')]_vars

\* ------------------------------------------------------------ C5
\* C5: when the run method of a node B is invoked, every input of B that is the
\* target of exactly one connection, whose source is stored as success with a
\* defined value at the connection's output, holds that value.
C5_InputResolution ==
  [][\A r \in RunIds :
       (pc[r] = "awaitInputs" /\ pc'[r] # "awaitInputs") =>
         \A i \in 1..Len(conns) :
           LET c == conns[i]
               v == executionStates[c.source].result.output[c.sourceOutput]
           IN  ( /\ c.target = ord[r][idx[r]]
                 /\ \A j \in 1..Len(conns) :
                      (conns[j].target = c.target /\ conns[j].targetInput = c.targetInput)
                      => j = i
                 /\ Status(c.source) = "success"
                 /\ v # Undef )
               => inputs[r][c.targetInput] = v]_vars

\* ------------------------------------------------------------ C6
\* C6: at most one run() call is in flight at any time.
C6_NoOverlap ==
  \A r, q \in RunIds : (InFlight(r) /\ InFlight(q)) => r = q

\* ------------------------------------------------------------ C7
\* C7: a run() call made while the running flag is set is refused and changes
\* nothing: not the flag, the state map, the order, the position or pending
\* work of any other call, the invocations or the callbacks made.
C7_ReentrancyGuard ==
  [][(isRunning /\ nextRun' # nextRun) =>
       /\ pc'[nextRun] = "refused"
       /\ \A r \in RunIds : r # nextRun => pc'[r] = pc[r]
       /\ UNCHANGED <<graphVars, isRunning, executionStates, executionOrder, ord, idx,
                      inputs, pend, given, calls, log, completed, cycleReported,
                      overlapped>>]_vars

\* a call was refused and the run it met has finished with all nodes success
C7_Witness ==
  \E r, q \in RunIds :
    /\ q < r
    /\ pc[r] = "refused"
    /\ pc[q] = "done"
    /\ log[r] = <<>>
    /\ \A n \in NodeIds : Status(n) = "success"

\* ------------------------------------------------------------ C8
\* C8: when the work of a node derived from BaseNode failed in the last
\* finished run, the node is stored as error with the failure's message and
\* every node after it in the order is still pending.
C8_BaseNodeFailureHalts ==
  \A r \in RunIds : \A k \in 1..Len(ord[r]) :
    (LastFinished(r) /\ kind[ord[r][k]] = "base" /\ given[r][ord[r][k]] = "reject")
    => /\ Status(ord[r][k]) = "error"
       /\ executionStates[ord[r][k]].error = ErrMsg
       /\ \A j \in (k + 1)..Len(ord[r]) : Status(ord[r][j]) = "pending"

Consecutive(r1, r2) ==
  /\ r1 < r2
  /\ pc[r1] = "done" /\ ~overlapped[r1]
  /\ pc[r2] = "done" /\ ~overlapped[r2]
  /\ \A q \in RunIds : (r1 < q /\ q < r2) => pc[q] = "refused"

\* every node invoked in both runs did the same in both
SameOutcomes(r1, r2) ==
  \A n \in NodeIds :
    (given[r1][n] # "none" /\ given[r2][n] # "none") => given[r1][n] = given[r2][n]

\* C10: on a graph without a cycle two consecutive finished runs in which the
\* nodes did the same used the same execution order and made the same sequence
\* of (node, status) state-change callbacks.
C10_Determinism ==
  \A r1, r2 \in RunIds :
    (~HasCycle(conns) /\ Consecutive(r1, r2) /\ SameOutcomes(r1, r2))
    => ord[r1] = ord[r2] /\ log[r1] = log[r2]

\* two consecutive runs that both halted on the failure of the second node
C10_Witness ==
  \E r1, r2 \in RunIds :
    /\ Consecutive(r1, r2)
    /\ ~HasCycle(conns)
    /\ Len(log[r1]) = 4
    /\ log[r1][4][2] = "error"
    /\ log[r2] = log[r1]
    /\ Len(ord[r1]) = MaxNodes

\* ------------------------------------------------------------ C11
\* q lists every element of ns exactly once and nothing else
IsPermutationOf(q, ns) ==
  /\ \A n \in Range(ns) : Cardinality({ i \in 1..Len(q) : q[i] = n }) = 1
  /\ Range(q) \subseteq Range(ns)

Invokes(r) == pc[r] = "awaitInputs" /\ pc'[r] # "awaitInputs"

\* C12: at most one node is stored as running at any time, and when a run()
\* call invokes the run method of a node, the node before it in the order (if
\* the editor has it and it has a run method) is stored as success.
C12_SerialExecution ==
  [][/\ Cardinality({ n \in NodeIds : Status(n)' = "running" }) <= 1
     /\ \A r \in RunIds :
          (Invokes(r) /\ idx[r] > 1) =>
            LET before == ord[r][idx[r] - 1]
            IN  (before \in Range(nodes) /\ kind[before] # "norun")
                => Status(before) = "success"]_vars

\* ------------------------------------------------------------ C13
\* executeNode of run() call r resolves the inputs of a node in this step
Resolves(r) == pc[r] # "awaitInputs" /\ pc'[r] = "awaitInputs"

\* connection c comes from a node that is not stored as success in map S
MissingUpstream(S, c) == S[c.source].status # "success"

\* the values that connections from sources stored as success in S carry into
\* input p of node B
Delivered(S, B, p) ==
  { S[conns[j].source].result.output[conns[j].sourceOutput] :
      j \in { k \in 1..Len(conns) :
                /\ conns[k].target = B /\ conns[k].targetInput = p
                /\ conns[k].source \in Range(nodes)
                /\ S[conns[k].source].status = "success" } } \ {Undef}

\* C13 as stated: when the inputs of a node B are resolved and a connection
\* into B has a source that is not stored as success, the inputs have no key
\* for the input that connection targets.
C13_NoKeyForInput ==
  [][\A r \in RunIds : Resolves(r) =>
       \A i \in 1..Len(conns) :
         (conns[i].target = ord'[r][idx'[r]] /\ MissingUpstream(executionStates', conns[i]))
         => inputs'[r][conns[i].targetInput] = Undef]_vars

\* C13, amended: when the inputs of a node B are resolved and a connection
\* into B has a source that is not stored as success (pending, running, error
\* or absent), B is stored as running and not as error, its run method can be
\* invoked, and the input that connection targets has no key unless other
\* connections into the same input come from sources stored as success with a
\* defined value, in which case it holds one of their values.
C13_MissingUpstreamTolerance ==
  /\ [](\A r \in RunIds : pc[r] = "awaitInputs" => ENABLED Invoke(r))
  /\ [][\A r \in RunIds : Resolves(r) =>
         LET B == ord'[r][idx'[r]]
         IN  \A i \in 1..Len(conns) :
               (conns[i].target = B /\ MissingUpstream(executionStates', conns[i]))
               => /\ executionStates'[B].status = "running"
                  /\ LET good == Delivered(executionStates', B, conns[i].targetInput)
                     IN  IF good = {} THEN inputs'[r][conns[i].targetInput] = Undef
                         ELSE inputs'[r][conns[i].targetInput] \in good]_vars

\* in the last finished run a node was invoked and stored as success although
\* the source of a connection into it was pending or absent from the state map
C13_Witness ==
  \E r \in RunIds : \E i \in 1..Len(conns) :
    LET B == conns[i].target
    IN  /\ pc[r] = "done"
        /\ LastFinished(r)
        /\ given[r][B] = "ok"
        /\ Status(B) = "success"
        /\ Status(conns[i].source) \in {"absent", "pending"}

\* ------------------------------------------------------------ C14
\* C14: every accepted run() call whose invoked nodes settle eventually
\* returns; onExecutionComplete has then been called exactly once for it, not
\* before it returned and never again; the step in which it returns leaves the
\* running flag false; and no onNodeStateChange of that call follows it.
C14_CompletionNotified ==
  /\ [](\A r \in RunIds : completed[r] = IF pc[r] = "done" THEN 1 ELSE 0)
  /\ [][\A r \in RunIds : (pc[r] # "done" /\ pc'[r] = "done") => ~isRunning']_vars
  /\ [][\A r \in RunIds : pc[r] = "done" => log'[r] = log[r]]_vars
  /\ \A r \in RunIds : InFlight(r) ~> (pc[r] = "done" /\ completed[r] = 1)

\* a run() call that halted on a failed node, after a node before it had
\* succeeded, has notified its completion once
C14_Witness ==
  \E r \in RunIds :
    /\ pc[r] = "done" /\ completed[r] = 1 /\ ~isRunning
    /\ Len(log[r]) = 4
    /\ log[r][2][2] = "success"
    /\ log[r][4][2] = "error"

\* ------------------------------------------------------------ C15
\* C15: in every step in which the stored status of a node becomes running,
\* success or error, exactly one onNodeStateChange call is made, with that
\* node's id and the state the store holds for it after the step; the calls
\* are recorded in the order of the steps.
C15_TransitionsObserved ==
  [][\A n \in NodeIds :
       (Status(n)' # Status(n) /\ Status(n)' \in {"running", "success", "error"})
       => \E r \in RunIds :
            /\ log'[r] = Append(log[r], <<n, Status(n)', executionStates'[n]>>)
            /\ \A q \in RunIds : q # r => log'[q] = log[q]]_vars

\* a run() call has notified running and success for one node, then running
\* and error for the next, and the last state it passed is the stored one
C15_Witness ==
  \E r \in RunIds :
    /\ Len(log[r]) = 4
    /\ log[r][1][2] = "running" /\ log[r][2][2] = "success"
    /\ log[r][3][2] = "running" /\ log[r][4][2] = "error"
    /\ log[r][2][1] = log[r][1][1] /\ log[r][3][1] # log[r][1][1]
    /\ log[r][4][3] = executionStates[log[r][4][1]]
    /\ log[r][4][3].error = ErrMsg

\* ------------------------------------------------------------ C16
\* the state of a node that was pending with nothing else set and has only
\* been marked running
FreshRunning == [PendingState EXCEPT !.status = "running", !.hasStart = TRUE]

\* C16: after the step in which a run() call is accepted, which takes it into
\* the execution of its first node, the state map has no entry for an id the
\* editor does not have, and for every node of the editor an entry that is
\* pending with no result, error or timestamp, except that the first node, if
\* its execution has begun, is marked running with a start time and nothing else.
C16_FreshStatePerRun ==
  [][\A r \in RunIds : Accepted(r) =>
       \A n \in NodeIds :
         IF n \notin Range(nodes) THEN executionStates'[n] = AbsentState
         ELSE \/ executionStates'[n] = PendingState
              \/ /\ pc'[r] = "awaitInputs"
                 /\ n = ord'[r][idx'[r]]
                 /\ executionStates'[n] = FreshRunning]_vars

\* a second run has begun its first node after a first run that ended with a
\* failed node, and a node that the first run executed has been removed
C16_Witness ==
  /\ pc[1] = "done" /\ pc[2] = "awaitInputs"
  /\ \E n \in NodeIds : given[1][n] = "throw"
  /\ \E n \in NodeIds : Pos(log[1], <<n, "success", [FreshRunning EXCEPT
         !.status = "success", !.hasEnd = TRUE,
         !.result = [set |-> TRUE, success |-> TRUE, output |-> NodeOutput(n), error |-> ""]]>>) > 0
       /\ n \notin Range(nodes) /\ Status(n) = "absent"
  /\ \A n \in Range(nodes) : Status(n) \in {"pending", "running"}

\* ------------------------------------------------------------ C17
\* C17: once a run() call on a graph with a cycle has returned and no later
\* call has been accepted, isExecutionComplete() is true, the running flag is
\* false and no node has been executed.
C17_CycleRunCompleted ==
  \A r \in RunIds :
    (HasCycle(conns) /\ WellFormed(nodes, conns) /\ LastFinished(r) /\ cycleReported[r])
    => /\ isExecutionComplete
       /\ ~isRunning
       /\ \A n \in NodeIds : calls[n] = 0 /\ Status(n) \in {"absent", "pending"}

\* ------------------------------------------------------------ C18
\* node n is the target of no connection
IsRoot(cs, n) == \A k \in 1..Len(cs) : cs[k].target # n

\* C18: in the order computed for a graph without a cycle, two nodes that are
\* the target of no connection stand in the order in which the editor lists
\* them.
C18_RootsInInsertionOrder ==
  [][\A r \in RunIds :
       (Accepted(r) /\ WellFormed(nodes, conns) /\ ~HasCycle(conns))
       => \A a, b \in Range(nodes) :
            (IsRoot(conns, a) /\ IsRoot(conns, b) /\ Pos(nodes, a) < Pos(nodes, b))
            => Pos(ord'[r], a) < Pos(ord'[r], b)]_vars

\* ------------------------------------------------------------ C19
\* C19: a stop() call changes nothing but the running flag: no node's state,
\* not the execution order, not the position or the pending work of a run()
\* call in flight; and after a stop() the state of a node whose run method
\* settles still moves to success or error.
C19_StopOnlyTogglesFlag ==
  [][/\ stops' # stops =>
          /\ ~isRunning'
          /\ UNCHANGED <<graphVars, executionStates, executionOrder, nextRun, pc, ord,
                         idx, inputs, pend, given, calls, log, completed, runResult>>
     /\ \A r \in RunIds :
          (stops > 0 /\ pc[r] = "awaitNode" /\ pc'[r] # "awaitNode")
          => /\ executionStates'[ord[r][idx[r]]].status =
                  IF pend[r] = "ok" THEN "success" ELSE "error"
             /\ executionStates'[ord[r][idx[r]]].hasEnd]_vars

\* stop() was called while the first run() call was the only one; that call is
\* still in flight with the flag cleared and has since stored a success
C19_Witness ==
  /\ stops = 1 /\ nextRun = 2 /\ ~isRunning
  /\ pc[1] = "awaitNode" /\ idx[1] = 2
  /\ Status(ord[1][1]) = "success"
  /\ Status(ord[1][2]) = "running"

\* ------------------------------------------------------------ C20
\* C20: while no run() call is in flight, getNodeState returns no state for an
\* id whose node has been removed from the editor.
C20_RemovedNodesExcised ==
  (\A r \in RunIds : ~InFlight(r)) =>
    \A n \in NodeIds : n \notin Range(nodes) => getNodeState(n) = AbsentState

\* ------------------------------------------------------------ C21
\* s and t are compatible socket types
Compatible(s, t) == s = t \/ s = "any" \/ t = "any"

\* the connection joins two different nodes, from a declared output to a
\* declared input of compatible socket types
Legal(data) ==
  /\ data.source # data.target
  /\ Outputs(data.source)[data.sourceOutput] # NoSocket
  /\ Inputs(data.target)[data.targetInput].socket # NoSocket
  /\ Compatible(Outputs(data.source)[data.sourceOutput],
                Inputs(data.target)[data.targetInput].socket)

\* C21: every connection the validating editor is asked to add is let through
\* by the validation if and only if it is legal (different nodes, declared
\* ports, compatible socket types), and a connection that is not let through
\* leaves the connection list unchanged.
C21_ValidationExact ==
  [][(lastConn' # lastConn /\ lastConn'.piped)
     => /\ lastConn'.added <=> Legal(lastConn'.data)
        /\ ~lastConn'.added => conns' = conns]_vars

\* ------------------------------------------------------------ C22
\* the legal connections into input p of node n
Incoming(n, p) ==
  { i \in 1..Len(conns) :
      conns[i].target = n /\ conns[i].targetInput = p /\ Legal(conns[i]) }

\* C22: an input declared without multipleConnections never has more than one
\* incoming legal connection, whatever connections the editor was asked to add.
C22_InputCapacity ==
  \A n \in NodeIds : \A p \in InNames :
    (Inputs(n)[p].socket # NoSocket /\ ~Inputs(n)[p].multipleConnections)
    => Cardinality(Incoming(n, p)) <= 1

\* ------------------------------------------------------------ C23
\* C23: for one NodeMemory instance, get(k) after set(k, v) returns v for
\* every JSON-serialisable v, the falsy values 0, false, "" and null included,
\* as long as no delete(k) or clear() came in between; after delete(k) or
\* clear() get(k) returns the absent value; a set on another key changes
\* nothing of this.  Stated for every key in every state (what get would
\* return) and for the get calls made.
C23_RoundTrip ==
  /\ \A id \in DOMAIN instances : \A k \in KeyStrings :
       LET e == expect[id][k]
       IN  /\ (e.did = "set" /\ e.value \in JSONValues) => get(localStorage, id, k) = e.value
           /\ e.did = "removed" => get(localStorage, id, k) = JsNull
  /\ (memLast.made /\ memLast.op = "get") =>
       LET e == expect[memLast.id][memLast.key]
       IN  /\ (e.did = "set" /\ e.value \in JSONValues) => memLast.result = e.value
           /\ e.did = "removed" => memLast.result = JsNull

\* a get returned the 0 that was set under its key, while the other key of the
\* instance holds a truthy value and had its own set
C23_Witness ==
  /\ memLast.made /\ memLast.op = "get"
  /\ memLast.result = JsNumber(0)
  /\ expect[memLast.id][memLast.key] = DidSet(JsNumber(0))
  /\ \E k \in KeyStrings \ {memLast.key} :
       expect[memLast.id][k] = DidSet(JsString(<<"x">>))

\* ------------------------------------------------------------ C24
\* C24: after a Memory Write node has successfully written value v under key
\* k, a Memory Read node of the same workflow executed with key k outputs
\* value v with exists = true.
C24_SharedData ==
  (memLast.made /\ memLast.op = "read" /\ memLast.key \in KeyStrings) =>
    \A w \in DOMAIN instances :
      (instances[w] = "memory-write" /\ expect[w][memLast.key].did = "set") =>
        memLast.result = [value |-> expect[w][memLast.key].value, exists |-> TRUE]

C25_UndoNotRecorded ==
  /\ [][ (events # <<>> /\ events' = Tail(events) /\ Head(events).cause # "user")
           => (history' = history /\ redoStack' = redoStack) ]_vars
  /\ []( (undone.made /\ undone.clean /\ events = <<>>) =>
           /\ redoStack # <<>>
           /\ redoStack[Len(redoStack)] = undone.action
           /\ Len(history) = undone.historyLength )

\* ------------------------------------------------------------ C26
\* C26: in every state reachable by run() and stop() calls, whenever
\* isExecutionComplete() returns true no node has status running and no
\* node's run method is still in flight.
C26_CompleteIsTruthful ==
  isExecutionComplete =>
    /\ \A n \in NodeIds : Status(n) # "running"
    /\ \A r \in RunIds : pc[r] # "awaitNode"

\* ------------------------------------------------------------ C27
\* the inputs of the node that run() call r is executing
Executing(r) == pc[r] \in {"awaitInputs", "awaitNode"}

\* connections into input p of node B
Into(B, p) == { i \in 1..Len(conns) : conns[i].target = B /\ conns[i].targetInput = p }

\* C27: a node without a run method is never invoked, its stored status is
\* never other than pending (or missing before the first run), no
\* onNodeStateChange call is made for it, a run that no node fails goes on to
\* invoke every node with a run method, and an input wired only from nodes
\* without a run method receives no value.
C27_NoRunPassedOver ==
  /\ \A n \in NodeIds : kind[n] = "norun" =>
       /\ calls[n] = 0
       /\ \A r \in RunIds : given[r][n] = "none"
       /\ Status(n) \in {"absent", "pending"}
       /\ \A r \in RunIds : \A i \in 1..Len(log[r]) : log[r][i][1] # n
  /\ \A r \in RunIds :
       (LastFinished(r) /\ ~cycleReported[r] /\ \A n \in NodeIds : Status(n) # "error") =>
         \A m \in Range(ord[r]) : kind[m] # "norun" => (Status(m) = "success" /\ calls[m] = 1)
  /\ \A r \in RunIds : Executing(r) =>
       \A p \in Ports :
         (Into(ord[r][idx[r]], p) # {}
            /\ \A i \in Into(ord[r][idx[r]], p) : kind[conns[i].source] = "norun")
         => inputs[r][p] = Undef

\* a run finished in which a node without a run method sits between two
\* nodes: it stayed pending, the node wired from it was invoked and succeeded
C27_Witness ==
  \E r \in RunIds : \E i, j \in 1..Len(conns) :
    /\ LastFinished(r)
    /\ kind[conns[i].target] = "norun"
    /\ conns[j].source = conns[i].target
    /\ Status(conns[i].source) = "success"
    /\ Status(conns[i].target) = "pending"
    /\ Status(conns[j].target) = "success"
    /\ calls[conns[j].target] = 1

\* ------------------------------------------------------------ C28
\* the connections into input p of node B whose source is stored as success
\* with a defined value on the connected output
Feeding(B, p) ==
  { i \in Into(B, p) :
      /\ conns[i].source \in Range(nodes)
      /\ Status(conns[i].source) = "success"
      /\ executionStates[conns[i].source].result.output[conns[i].sourceOutput] # Undef }

\* the value connection i carries
Carried(i) == executionStates[conns[i].source].result.output[conns[i].sourceOutput]

\* the greatest member of a non-empty set of indices
Last(S) == CHOOSE i \in S : \A j \in S : j <= i

\* C28: when more than one connection from successful sources with defined
\* output values targets the same input of a node, the node is invoked with
\* the value of the last such connection in the editor's connection list.
C28_LastConnectionWins ==
  \A r \in RunIds : Executing(r) =>
    \A p \in Ports :
      Cardinality(Feeding(ord[r][idx[r]], p)) > 1 =>
        inputs[r][p] = Carried(Last(Feeding(ord[r][idx[r]], p)))

\* a node's run method is in flight, invoked with the value of the second of
\* two connections into one input that carry different values
C28_Witness ==
  \E r \in RunIds : \E p \in Ports :
    /\ pc[r] = "awaitNode"
    /\ Cardinality(Feeding(ord[r][idx[r]], p)) = 2
    /\ \E i, j \in Feeding(ord[r][idx[r]], p) :
         i < j /\ Carried(i) # Carried(j) /\ inputs[r][p] = Carried(j)

\* ------------------------------------------------------------ C30
\* C30: after a connected WebSocket node has handled a disconnect action, or
\* has been destroyed, it arms no reconnect timer and creates no WebSocket
\* until a connect action is executed, whatever autoReconnect and the
\* attempts left are.
C30_DisconnectIsFinal ==
  [][ (finalOff /\ finalOff') =>
        /\ (reconnectTimer' = "armed" => reconnectTimer = "armed")
        /\ reconnectAttempts' <= reconnectAttempts
        /\ Len(sockets') = Len(sockets) ]_vars

====
